---------------------------- MODULE Spec2Model ----------------------------
(***************************************************************************)
(* Subscription / trial / payment state machine of school_app (app.py).   *)
(*                                                                         *)
(* The relational store is modelled by the tables the account and billing  *)
(* code reads and writes: users (password, trial window), subscriptions    *)
(* (the billing period ledger) and password_resets.  Dates held by Python  *)
(* are proleptic Gregorian ordinals (datetime.date.toordinal); dates held  *)
(* by SQLite are ISO-8601 TEXT, modelled as <<year, month, day>> triples   *)
(* that the SQL compares lexicographically, as it compares the text.       *)
(* Requests are handled one at a time by the handler actions; the actions  *)
(* of the section on in-flight requests run handlers statement by          *)
(* statement on the threads of the server.                                 *)
(***************************************************************************)
EXTENDS Integers, Sequences, FiniteSets, TLC

VARIABLES
    today,            \* datetime.date.today(), as an ordinal
    utcnow,           \* datetime.datetime.utcnow(), in minutes
    users,            \* table users, indexed by id (AUTOINCREMENT from 1)
    subscriptions,    \* table subscriptions, indexed by id (AUTOINCREMENT from 1)
    password_resets,  \* table password_resets, indexed by id (AUTOINCREMENT from 1)
    response,         \* the HTTP response of the last request handled
    threads,          \* the server's threads: where each stands in its handler
    gateway           \* the payment gateway: the credential held, the checkouts requested

vars == <<today, utcnow, users, subscriptions, password_resets, response, threads, gateway>>

-----------------------------------------------------------------------------
(* Program constants *)

TRIAL_DAYS == 7

BILLING_DAYS == 30

\* timedelta(hours=1) of forgot, in minutes
RESET_MINUTES == 60

-----------------------------------------------------------------------------
(* Bounds of the model *)

\* registered accounts (the seeded admin included)
MaxUsers == 2

\* rows of the subscriptions table
MaxRows == 2

\* rows of the subscriptions table in the ledger-only specification
MaxPayments == 3

\* threads of the server handling requests at the same time
MaxThreads == 2

\* checkout requests posted to the gateway
MaxCalls == 2

\* rows of the password_resets table
MaxResets == 2

-----------------------------------------------------------------------------
(* datetime.date: ordinal <-> ISO text *)

\* date(y, m, d).toordinal()
toordinal(y, m, d) ==
    LET yy  == IF m <= 2 THEN y - 1 ELSE y
        era == yy \div 400
        yoe == yy - era * 400
        mp  == IF m > 2 THEN m - 3 ELSE m + 9
        doy == (153 * mp + 2) \div 5 + d - 1
        doe == yoe * 365 + yoe \div 4 - yoe \div 100 + doy
    IN  era * 146097 + doe - 305

\* date.fromordinal(n).isoformat(): the text "YYYY-MM-DD" as <<YYYY, MM, DD>>
isoformat(n) ==
    LET z   == n + 305
        era == z \div 146097
        doe == z - era * 146097
        yoe == (doe - doe \div 1460 + doe \div 36524 - doe \div 146096) \div 365
        doy == doe - (365 * yoe + yoe \div 4 - yoe \div 100)
        mp  == (5 * doy + 2) \div 153
        d   == doy - (153 * mp + 2) \div 5 + 1
        m   == IF mp < 10 THEN mp + 3 ELSE mp - 9
        y   == yoe + era * 400 + (IF m <= 2 THEN 1 ELSE 0)
    IN  <<y, m, d>>

\* datetime.date.fromisoformat(text), as an ordinal
fromisoformat(text) == toordinal(text[1], text[2], text[3])

\* SQLite's comparison of two ISO date texts (TEXT affinity: lexicographic)
TextGeq(a, b) ==
    \/ a[1] > b[1]
    \/ a[1] = b[1] /\ a[2] > b[2]
    \/ a[1] = b[1] /\ a[2] = b[2] /\ a[3] >= b[3]

\* SQL NULL in a TEXT column
NULL == <<>>

\* the first day of the model's calendar, 2024-05-12
Day0 == toordinal(2024, 5, 12)

\* datetime.datetime: minutes since the midnight that begins ordinal 0
MinutesPerDay == 24 * 60

\* datetime.isoformat(): the text "YYYY-MM-DDTHH:MM" as <<YYYY, MM, DD, HH, MM>>
datetime_isoformat(n) ==
    isoformat(n \div MinutesPerDay)
        \o <<(n % MinutesPerDay) \div 60, (n % MinutesPerDay) % 60>>

\* datetime.datetime.fromisoformat(text), in minutes
datetime_fromisoformat(text) ==
    toordinal(text[1], text[2], text[3]) * MinutesPerDay + text[4] * 60 + text[5]

\* the first instant of the model's UTC clock, 2024-05-12T10:00
Minute0 == Day0 * MinutesPerDay + 10 * 60

\* days (offsets from Day0) on which requests arrive, full system
RequestDays == {0, 30}

\* days (offsets from Day0) on which requests arrive, access specification
AccessDays == {0, 7, 8, 29, 30}

\* days (offsets from Day0) on which requests arrive, trial specification
TrialDays == {0, 7, 8, 15}

\* days (offsets from Day0) on which requests arrive, webhook specification
WebhookDays == {0, 30}

\* days (offsets from Day0) on which payments arrive, ledger-only specification
PaymentDays == {0, 20, 29, 30, 31, 81}

-----------------------------------------------------------------------------
(* Tables *)

\* ids a session or a webhook may name: the registered ones and one more
UserIds == 1..(MaxUsers + 1)

\* the seeded admin's id, and an id that names no user
AccessIds == {1, MaxUsers + 1}

\* sha256(password.encode("utf-8")).hexdigest(): the digest of a password
sha256(password) == <<"sha256", password>>

\* seed admin of init_db
AdminUser ==
    [id |-> 1, email |-> "admin@example.com", password_hash |-> sha256("admin"),
     trial_started_at |-> NULL, trial_ends_at |-> NULL]

\* SELECT * FROM users WHERE id = ?  (the set of matching rows)
UserRows(uid) == {users[i] : i \in {j \in DOMAIN users : users[j].id = uid}}

\* rows of a table value, as a set
Rows(subs) == {subs[i] : i \in DOMAIN subs}


\* an HTTP response: body (or redirect target), status code, flashed message
Reply(body, status, flash) == [body |-> body, status |-> status, flash |-> flash]

\* no request handled yet
NoResponse == Reply("", 0, "")

\* the threads of the server (app.run(..., threaded=True))
Threads == 1..MaxThreads

\* a thread handling no request; otherwise pc names the statement it runs
\* next, and user_id, day and last are the handler's local variables
Idle == [pc |-> "idle", user_id |-> 0, day |-> 0, last |-> {}]

-----------------------------------------------------------------------------
(* Access evaluation *)

\* has_trial_access with the comparison made strict
has_trial_access_strict(user_rows, day) ==
    \E user \in user_rows :
        /\ user.trial_ends_at # NULL
        /\ day < fromisoformat(user.trial_ends_at)

\* has_trial_access(user_row), user_rows being the fetched row as a set
has_trial_access(user_rows, day) ==
    \E user \in user_rows :
        /\ user.trial_ends_at # NULL
        /\ day <= fromisoformat(user.trial_ends_at)

\* the WHERE clause with `AND cancel_at_period_end = 0` added: a cancelled
\* period no longer counts
IsCurrentFor_unflagged(row, user_id, day) ==
    /\ row.user_id = user_id
    /\ row.status = "active"
    /\ row.cancel_at_period_end = 0
    /\ TextGeq(row.current_period_end, isoformat(day))

\* the WHERE clause of active_subscription_for
IsCurrentFor(row, user_id, day) ==
    /\ row.user_id = user_id
    /\ row.status = "active"
    /\ TextGeq(row.current_period_end, isoformat(day))

\* active_subscription_for(user_id): the rows the query selects from
active_subscription_for(subs, user_id, day) ==
    {row \in Rows(subs) : IsCurrentFor(row, user_id, day)}

\* the condition of subscription_required's wrapped()
GateOpen(session_uid) ==
    LET user == UserRows(session_uid)
    IN  /\ user # {}
        /\ \/ has_trial_access(user, today)
           \/ \E u \in user : active_subscription_for(subscriptions, u.id, today) # {}

\* a request for a page behind @subscription_required, session naming session_uid
subscription_required(session_uid) ==
    /\ response' = IF GateOpen(session_uid)
                   THEN Reply("page", 200, "")
                   ELSE Reply("redirect:pricing", 302, "subscription required")
    /\ UNCHANGED <<today, utcnow, users, subscriptions, password_resets, threads, gateway>>

-----------------------------------------------------------------------------
(* Accounts and trial activation *)

\* the password typed into the registration form
RegisterPassword == "secret"

\* POST /register with a non-empty email and password
register(email) ==
    /\ Len(users) < MaxUsers
    /\ IF \E i \in DOMAIN users : users[i].email = email
       THEN /\ response' = Reply("register/index.html", 200, "email already registered")
            /\ UNCHANGED users
       ELSE /\ users' = Append(users,
                   [id |-> Len(users) + 1, email |-> email,
                    password_hash |-> sha256(RegisterPassword),
                    trial_started_at |-> NULL, trial_ends_at |-> NULL])
            /\ response' = Reply("redirect:pricing", 302, "account created")
    /\ UNCHANGED <<today, utcnow, subscriptions, password_resets, threads, gateway>>

\* the trial window with the day of activation counted as its first day
TrialEnds_short(day) == day + (TRIAL_DAYS - 1)

\* the trial window written by start_trial on day `day`
TrialEnds(day) == day + TRIAL_DAYS

\* start_trial rejecting only while the trial window is still open
start_trial_while_open(user_id) ==
    /\ IF UserRows(user_id) = {}
       THEN /\ response' = Reply("Internal Server Error", 500, "")
            /\ UNCHANGED users
       ELSE IF has_trial_access(UserRows(user_id), today)
       THEN /\ response' = Reply("redirect:account", 302, "trial already used")
            /\ UNCHANGED users
       ELSE /\ users' = [users EXCEPT
                   ![user_id].trial_started_at = isoformat(today),
                   ![user_id].trial_ends_at = isoformat(TrialEnds(today))]
            /\ response' = Reply("redirect:account", 302, "trial started")
    /\ UNCHANGED <<today, utcnow, subscriptions, password_resets, threads, gateway>>

\* POST /subscribe, action = start_trial, the session naming user_id
start_trial(user_id) ==
    /\ IF UserRows(user_id) = {}
       THEN \* user is None: user["trial_started_at"] raises TypeError
            /\ response' = Reply("Internal Server Error", 500, "")
            /\ UNCHANGED users
       ELSE IF users[user_id].trial_started_at # NULL
       THEN /\ response' = Reply("redirect:account", 302, "trial already used")
            /\ UNCHANGED users
       ELSE /\ users' = [users EXCEPT
                   ![user_id].trial_started_at = isoformat(today),
                   ![user_id].trial_ends_at = isoformat(TrialEnds(today))]
            /\ response' = Reply("redirect:account", 302, "trial started")
    /\ UNCHANGED <<today, utcnow, subscriptions, password_resets, threads, gateway>>

\* the UPDATE of cancel without its `user_id=?`: every user's rows are flagged
SetCancel_all_users(subs, user_id) ==
    [i \in DOMAIN subs |->
        IF subs[i].status = "active" /\ subs[i].cancel_at_period_end = 0
        THEN [subs[i] EXCEPT !.cancel_at_period_end = 1]
        ELSE subs[i]]

\* the UPDATE of cancel also ending the period: status set to 'canceled'
SetCancel_status(subs, user_id) ==
    [i \in DOMAIN subs |->
        IF /\ subs[i].user_id = user_id
           /\ subs[i].status = "active"
           /\ subs[i].cancel_at_period_end = 0
        THEN [subs[i] EXCEPT !.cancel_at_period_end = 1, !.status = "canceled"]
        ELSE subs[i]]

\* UPDATE subscriptions SET cancel_at_period_end=1
\*   WHERE user_id=? AND status='active' AND cancel_at_period_end=0
SetCancel(subs, user_id) ==
    [i \in DOMAIN subs |->
        IF /\ subs[i].user_id = user_id
           /\ subs[i].status = "active"
           /\ subs[i].cancel_at_period_end = 0
        THEN [subs[i] EXCEPT !.cancel_at_period_end = 1]
        ELSE subs[i]]

\* POST /subscribe, action = cancel, the session naming user_id
cancel(user_id) ==
    /\ subscriptions' = SetCancel(subscriptions, user_id)
    /\ response' = Reply("redirect:account", 302, "cancel at period end")
    /\ UNCHANGED <<today, utcnow, users, password_resets, threads, gateway>>

-----------------------------------------------------------------------------
(* Billing period ledger *)

\* SELECT * FROM subscriptions WHERE user_id=? AND status='active'
ActiveRowsOf(subs, user_id) ==
    {row \in Rows(subs) : row.user_id = user_id /\ row.status = "active"}

\* the query of create_subscription_month with ORDER BY ... ASC
LastRows_oldest(subs, user_id) ==
    {row \in ActiveRowsOf(subs, user_id) :
        \A other \in ActiveRowsOf(subs, user_id) :
            TextGeq(other.current_period_end, row.current_period_end)}

\* ... ORDER BY current_period_end DESC LIMIT 1: the rows that may come first
LastRows(subs, user_id) ==
    {row \in ActiveRowsOf(subs, user_id) :
        \A other \in ActiveRowsOf(subs, user_id) :
            TextGeq(row.current_period_end, other.current_period_end)}

\* period_start with `>` in place of `>=`
PeriodStart_strict(last, day) ==
    IF \E row \in last : fromisoformat(row.current_period_end) > day
    THEN (CHOOSE n \in {fromisoformat(row.current_period_end) : row \in last} : TRUE) + 1
    ELSE day

\* period_start of create_subscription_month, `last` the fetched row as a set
PeriodStart(last, day) ==
    IF \E row \in last : fromisoformat(row.current_period_end) >= day
    THEN (CHOOSE n \in {fromisoformat(row.current_period_end) : row \in last} : TRUE) + 1
    ELSE day

\* period_end with the start day not counted
PeriodEnd_exclusive(period_start) == period_start + BILLING_DAYS

\* period_end of create_subscription_month
PeriodEnd(period_start) == period_start + (BILLING_DAYS - 1)

\* the row create_subscription_month inserts
NewRow(subs, user_id, day) ==
    LET period_start == PeriodStart(LastRows(subs, user_id), day)
    IN  [id |-> Len(subs) + 1,
         user_id |-> user_id,
         status |-> "active",
         current_period_start |-> isoformat(period_start),
         current_period_end |-> isoformat(PeriodEnd(period_start)),
         cancel_at_period_end |-> 0]

\* create_subscription_month(user_id): the table after the INSERT, and the
\* date returned
create_subscription_month(subs, user_id, day) ==
    [subscriptions |-> Append(subs, NewRow(subs, user_id, day)),
     period_end |-> PeriodEnd(PeriodStart(LastRows(subs, user_id), day))]

\* the handler without its UPDATE: no flag is cleared
ClearCancel_skipped(subs, user_id) == subs

\* UPDATE subscriptions SET cancel_at_period_end=0 WHERE user_id=? AND status='active'
ClearCancel(subs, user_id) ==
    [i \in DOMAIN subs |->
        IF subs[i].user_id = user_id /\ subs[i].status = "active"
        THEN [subs[i] EXCEPT !.cancel_at_period_end = 0]
        ELSE subs[i]]

-----------------------------------------------------------------------------
(* JSON values of a webhook request body, tagged by their Python type *)

None == [t |-> "null"]

Str(s) == [t |-> "str", s |-> s]

Num(n) == [t |-> "int", n |-> n]

\* a list of `len` elements
List(len) == [t |-> "list", len |-> len]

\* a dict with the items of the function f (its domain a set of strings)
Dict(f) == [t |-> "dict", f |-> f]

EmptyDict == Dict([k \in {} |-> None])

\* a request body that is not JSON text
Garbage == [t |-> "garbage"]

\* marks a key left out of a dict under construction
Absent == [t |-> "absent"]

\* the dict holding those of the given items whose value is not Absent
DictOf(items) ==
    Dict([k \in {key \in DOMAIN items : items[key].t # "absent"} |-> items[k]])

\* Python truth value of a JSON value
Truthy(v) ==
    CASE v.t = "null" -> FALSE
      [] v.t = "str"  -> v.s # ""
      [] v.t = "int"  -> v.n # 0
      [] v.t = "list" -> v.len > 0
      [] v.t = "dict" -> DOMAIN v.f # {}

\* Python `a or b`
Or(a, b) == IF Truthy(a) THEN a ELSE b

\* dict.get(key)
Get(d, key) == IF key \in DOMAIN d.f THEN d.f[key] ELSE None

\* Python `v == "literal"`
EqStr(v, literal) == v.t = "str" /\ v.s = literal

\* request.get_json(force=True, silent=True): a parse failure is silenced to None
get_json(body) == IF body.t = "garbage" THEN None ELSE body

\* the decimal texts of the model and the integers int() reads from them
DecimalText == [s \in {"1", "2", "3", " 2 "} |->
                   CASE s = "1" -> 1 [] s = "2" -> 2 [] s = "3" -> 3 [] s = " 2 " -> 2]

\* int(v or 0): a missing user_id read as 0
int_or_zero(v) ==
    CASE v.t = "int" -> [ok |-> TRUE, n |-> v.n]
      [] v.t = "str" /\ v.s \in DOMAIN DecimalText -> [ok |-> TRUE, n |-> DecimalText[v.s]]
      [] v.t = "null" -> [ok |-> TRUE, n |-> 0]
      [] OTHER -> [ok |-> FALSE, n |-> 0]

\* int(v): [ok |-> whether no exception is raised, n |-> the value]
int(v) ==
    CASE v.t = "int" -> [ok |-> TRUE, n |-> v.n]
      [] v.t = "str" /\ v.s \in DOMAIN DecimalText -> [ok |-> TRUE, n |-> DecimalText[v.s]]
      [] OTHER -> [ok |-> FALSE, n |-> 0]

\* the accepted status values with "pending" among them
SuccessStatus_pending == {"paid", "succeeded", "success", "pending"}

\* the status values chargily_webhook accepts as a successful payment
SuccessStatus == {"paid", "succeeded", "success"}

\* the extraction with each field read from `data` on its own whenever the top
\* level lacks it, whatever the top-level entity
WebhookEvent_per_field(body) ==
    LET evt == Or(get_json(body), EmptyDict)
    IN  IF evt.t # "dict"
        THEN [raised |-> TRUE, entity |-> None, status |-> None, user_id |-> None]
        ELSE
        LET nested   == Get(evt, "data").t = "dict"
            data     == Get(evt, "data")
            entity   == IF nested THEN Or(Get(evt, "entity"), Get(data, "entity"))
                        ELSE Get(evt, "entity")
            status   == IF nested THEN Or(Get(evt, "status"), Get(data, "status"))
                        ELSE Get(evt, "status")
            metadata == IF nested THEN Or(Get(evt, "metadata"), Get(data, "metadata"))
                        ELSE Get(evt, "metadata")
            md       == Or(metadata, EmptyDict)
        IN  IF md.t # "dict"
            THEN [raised |-> TRUE, entity |-> entity, status |-> status, user_id |-> None]
            ELSE [raised |-> FALSE, entity |-> entity, status |-> status,
                  user_id |-> Get(md, "user_id")]

\* chargily_webhook up to the test of entity and status: whether an exception
\* was raised on the way, and the entity, status and user_id then in hand
WebhookEvent(body) ==
    LET evt == Or(get_json(body), EmptyDict)
    IN  IF evt.t # "dict"
        THEN [raised |-> TRUE, entity |-> None, status |-> None, user_id |-> None]
        ELSE
        LET entity0   == Get(evt, "entity")
            status0   == Get(evt, "status")
            metadata0 == Or(Get(evt, "metadata"), EmptyDict)
            nested    == ~Truthy(entity0) /\ Get(evt, "data").t = "dict"
            data      == Get(evt, "data")
            entity    == IF nested THEN Or(Get(data, "entity"), entity0) ELSE entity0
            status    == IF nested THEN Or(Get(data, "status"), status0) ELSE status0
            metadata  == IF nested THEN Or(Get(data, "metadata"), metadata0) ELSE metadata0
            md        == Or(metadata, EmptyDict)
        IN  IF md.t # "dict"
            THEN [raised |-> TRUE, entity |-> entity, status |-> status, user_id |-> None]
            ELSE [raised |-> FALSE, entity |-> entity, status |-> status,
                  user_id |-> Get(md, "user_id")]

\* the test `entity == "checkout" and status in ("paid", "succeeded", "success")`
IsPaidCheckout(entity, status) ==
    EqStr(entity, "checkout") /\ \E s \in SuccessStatus : EqStr(status, s)

\* chargily_webhook(body) on the table subs on day `day`:
\* the response and the table it leaves
webhook_result(body, subs, day) ==
    LET ev == WebhookEvent(body)
        n  == int(ev.user_id)
    IN  IF ev.raised
        THEN [response |-> Reply("Internal Server Error", 500, ""), subscriptions |-> subs]
        ELSE IF IsPaidCheckout(ev.entity, ev.status)
        THEN IF ~n.ok
             THEN [response |-> Reply("missing user_id", 400, ""), subscriptions |-> subs]
             ELSE [response |-> Reply("ok", 200, ""),
                   subscriptions |->
                       ClearCancel(create_subscription_month(subs, n.n, day).subscriptions, n.n)]
        ELSE [response |-> Reply("ignored", 200, ""), subscriptions |-> subs]

\* POST /webhooks/chargily with the given body; cap bounds the table
chargily_webhook(body, cap) ==
    LET result == webhook_result(body, subscriptions, today)
    IN  /\ Len(result.subscriptions) <= cap
        /\ subscriptions' = result.subscriptions
        /\ response' = result.response
        /\ UNCHANGED <<today, utcnow, users, password_resets, threads, gateway>>

-----------------------------------------------------------------------------
(* Request bodies the gateway (or anyone else) may post *)

\* values of metadata.user_id
UserIdValues ==
    {Absent, None, Str("abc"), Str("1"), Str(" 2 "), List(1)} \cup {Num(n) : n \in AccessIds}

\* metadata = {"user_id": uid}
Meta(uid) == DictOf([user_id |-> uid])

\* a JSON object with the given top-level fields
Payload(entity, status, metadata, data) ==
    DictOf([entity |-> entity, status |-> status, metadata |-> metadata, data |-> data])

\* the gateway's notification of a paid checkout of user n
Paid(n) == Payload(Str("checkout"), Str("paid"), Meta(Num(n)), Absent)

\* bodies that are no JSON object
NonObjectBodies == {Garbage, None, List(0), List(2), Num(0), Num(5), Str("checkout")}

\* JSON objects with top-level fields only
TopLevelBodies ==
    {Payload(e, s, m, Absent) :
        e \in {Absent, Str("checkout"), Str("payment")},
        s \in {Absent, Str("paid"), Str("succeeded"), Str("success"), Str("pending")},
        m \in {Absent, None, Str("x"), Meta(Num(1))}}
    \cup {Payload(Str("checkout"), s, Meta(u), Absent) :
        s \in {Str("paid"), Str("pending")}, u \in UserIdValues}

\* JSON objects with a "data" field
NestedBodies ==
    {Payload(e, s, m, d) :
        e \in {Absent, Str("checkout")},
        s \in {Absent, Str("pending")},
        m \in {Absent, Meta(Num(2))},
        d \in {Str("x")} \cup
              {Payload(de, ds, dm, Absent) :
                  de \in {Absent, Str("checkout")},
                  ds \in {Absent, Str("paid")},
                  dm \in {Absent, Str("x"), Meta(Num(1))}}}

\* every request body of the model
Bodies == NonObjectBodies \cup TopLevelBodies \cup NestedBodies

\* one body for each way the handler can end: ignored, failed, bad user id, paid
Deliveries ==
    {Garbage, List(2), Payload(Absent, Str("pending"), Absent, Absent),
     Payload(Str("checkout"), Str("paid"), Meta(Str("abc")), Absent)}
    \cup {Paid(n) : n \in AccessIds}

-----------------------------------------------------------------------------
(* Password reset *)

\* secrets.token_urlsafe(32): the n-th value drawn.  The values are random and
\* unguessable; only their being distinct from one another matters here
token_urlsafe(n) == <<"token", n>>

\* the tokens a request for /reset/<token> may name: those forgot has issued
\* or will issue
Tokens == {token_urlsafe(n) : n \in 1..MaxResets}

\* SELECT * FROM users WHERE email = ?  (the set of matching rows)
UsersByEmail(email) == {users[i] : i \in {j \in DOMAIN users : users[j].email = email}}

\* POST /forgot with a non-empty email
forgot(email) ==
    /\ Len(password_resets) < MaxResets
    /\ IF UsersByEmail(email) = {}
       THEN /\ response' = Reply("forgot/index.html", 200, "no account with this email")
            /\ UNCHANGED password_resets
       ELSE /\ password_resets' = Append(password_resets,
                   [id |-> Len(password_resets) + 1,
                    user_id |-> (CHOOSE user \in UsersByEmail(email) : TRUE).id,
                    token |-> token_urlsafe(Len(password_resets) + 1),
                    expires_at |-> datetime_isoformat(utcnow + RESET_MINUTES),
                    used |-> 0])
            /\ response' = Reply("redirect:login", 302, "reset link")
    /\ UNCHANGED <<today, utcnow, users, subscriptions, threads, gateway>>

\* the query of reset_password without its `used = 0`
ResetRequest_reusable(token) ==
    {password_resets[j] : j \in {k \in DOMAIN password_resets :
                                     password_resets[k].token = token}}

\* SELECT * FROM password_resets WHERE token = ? AND used = 0
ResetRequest(token) ==
    {password_resets[j] : j \in {k \in DOMAIN password_resets :
                                     /\ password_resets[k].token = token
                                     /\ password_resets[k].used = 0}}

\* UPDATE users SET password_hash = ? WHERE id = ?
SetPassword(user_id, pwd_hash) ==
    [i \in DOMAIN users |->
        IF users[i].id = user_id
        THEN [users[i] EXCEPT !.password_hash = pwd_hash]
        ELSE users[i]]

\* UPDATE password_resets SET used = 1 WHERE id = ?
SetUsed(id) ==
    [j \in DOMAIN password_resets |->
        IF password_resets[j].id = id
        THEN [password_resets[j] EXCEPT !.used = 1]
        ELSE password_resets[j]]

\* GET or POST /reset/<token>, the form holding `new` and `confirm`
reset_password(token, method, new, confirm) ==
    /\ IF ResetRequest(token) = {}
       THEN /\ response' = Reply("redirect:login", 302, "link invalid or used")
            /\ UNCHANGED <<users, password_resets>>
       ELSE LET req == CHOOSE row \in ResetRequest(token) : TRUE
                exp == datetime_fromisoformat(req.expires_at)
            IN  IF utcnow > exp
                THEN /\ response' = Reply("redirect:forgot", 302, "link expired")
                     /\ UNCHANGED <<users, password_resets>>
                ELSE IF method = "POST"
                THEN IF new = "" \/ new # confirm
                     THEN /\ response' = Reply("reset/index.html", 200,
                                               "enter a password and its confirmation")
                          /\ UNCHANGED <<users, password_resets>>
                     ELSE /\ users' = SetPassword(req.user_id, sha256(new))
                          /\ password_resets' = SetUsed(req.id)
                          /\ response' = Reply("redirect:login", 302, "password changed")
                ELSE /\ response' = Reply("reset/index.html", 200, "")
                     /\ UNCHANGED <<users, password_resets>>
    /\ UNCHANGED <<today, utcnow, subscriptions, threads, gateway>>

-----------------------------------------------------------------------------
(* Checkout initiation *)

\* requests.post(...) raised: no connection, or no answer within the timeout
PostRaised == [raised |-> TRUE, status_code |-> 0, json |-> Garbage]

\* the gateway answered with the given status code and body
PostReturned(status_code, json) == [raised |-> FALSE, status_code |-> status_code, json |-> json]

\* the body of a created checkout
CheckoutCreated == DictOf([checkout_url |-> Str("https://pay.chargily.net/checkouts/1/pay")])

\* the outcomes of the outbound call
GatewayReplies ==
    {PostRaised}
    \cup {PostReturned(code, json) :
            code \in {200, 400},
            json \in {Garbage, EmptyDict, List(1), DictOf([checkout_url |-> None]),
                      CheckoutCreated}}

\* the response of pay_start to the outcome of its outbound call
pay_start_response(reply) ==
    IF reply.raised \/ reply.json.t = "garbage"
    THEN \* requests.post or resp.json() raised
         Reply("redirect:pricing", 302, "gateway error")
    ELSE IF reply.status_code >= 400
    THEN Reply("redirect:pricing", 302, "payment creation failed")
    ELSE IF reply.json.t # "dict"
    THEN \* data.get raises AttributeError, caught by `except Exception`
         Reply("redirect:pricing", 302, "gateway error")
    ELSE IF ~Truthy(Get(reply.json, "checkout_url"))
    THEN Reply("redirect:pricing", 302, "no checkout url")
    ELSE Reply("redirect:checkout_url", 302, "")

\* pay_start crediting the month as soon as the gateway has created the checkout
pay_start_credit(session_uid, reply) ==
    /\ Truthy(gateway.key) => Len(gateway.checkouts) < MaxCalls
    /\ IF ~Truthy(gateway.key)
       THEN /\ response' = Reply("redirect:pricing", 302, "chargily keys not set")
            /\ UNCHANGED <<gateway, subscriptions>>
       ELSE /\ gateway' = [gateway EXCEPT !.checkouts = Append(@, session_uid)]
            /\ response' = pay_start_response(reply)
            /\ subscriptions' =
                   IF pay_start_response(reply).body = "redirect:checkout_url"
                      /\ Len(subscriptions) < MaxRows
                   THEN create_subscription_month(subscriptions, session_uid, today).subscriptions
                   ELSE subscriptions
    /\ UNCHANGED <<today, utcnow, users, password_resets, threads>>

\* POST /pay/start, the session naming session_uid, the outbound call (if one
\* is made) ending as `reply`
pay_start(session_uid, reply) ==
    /\ Truthy(gateway.key) => Len(gateway.checkouts) < MaxCalls
    /\ IF ~Truthy(gateway.key)
       THEN /\ response' = Reply("redirect:pricing", 302, "chargily keys not set")
            /\ UNCHANGED gateway
       ELSE \* metadata.user_id of the payload posted is the session's user
            /\ gateway' = [gateway EXCEPT !.checkouts = Append(@, session_uid)]
            /\ response' = pay_start_response(reply)
    /\ UNCHANGED <<today, utcnow, users, subscriptions, password_resets, threads>>

\* GET /account, where the gateway sends the browser after the payment
account(session_uid) ==
    /\ UserRows(session_uid) # {}
    /\ response' = Reply("account/index.html", 200, "")
    /\ UNCHANGED <<today, utcnow, users, subscriptions, password_resets, threads, gateway>>

-----------------------------------------------------------------------------
(* Requests in flight: handlers run statement by statement, each on its own  *)
(* thread and its own connection, every statement committed on its own      *)

\* cur.fetchone(): the first row of the result, as a set, or no row
fetchone(rows) == IF rows = {} THEN {{}} ELSE {{row} : row \in rows}

\* the thread t standing at statement pc with the given local variables
At(t, pc, user_id, day, last) ==
    [threads EXCEPT ![t] = [pc |-> pc, user_id |-> user_id, day |-> day, last |-> last]]

\* chargily_webhook up to the call of create_subscription_month and the
\* `today = datetime.date.today()` that opens it: no statement touches the store
webhook_begin(t, body) ==
    LET ev == WebhookEvent(body)
        n  == int(ev.user_id)
    IN  /\ threads[t].pc = "idle"
        /\ IF ev.raised
           THEN /\ response' = Reply("Internal Server Error", 500, "")
                /\ UNCHANGED threads
           ELSE IF ~IsPaidCheckout(ev.entity, ev.status)
           THEN /\ response' = Reply("ignored", 200, "")
                /\ UNCHANGED threads
           ELSE IF ~n.ok
           THEN /\ response' = Reply("missing user_id", 400, "")
                /\ UNCHANGED threads
           ELSE /\ threads' = At(t, "csm_select", n.n, today, {})
                /\ UNCHANGED response
        /\ UNCHANGED <<today, utcnow, users, subscriptions, password_resets, gateway>>

\* create_subscription_month: the SELECT of the last active period
csm_select(t) ==
    /\ threads[t].pc = "csm_select"
    /\ \E last \in fetchone(LastRows(subscriptions, threads[t].user_id)) :
          threads' = At(t, "csm_insert", threads[t].user_id, threads[t].day, last)
    /\ UNCHANGED <<today, utcnow, users, subscriptions, password_resets, response, gateway>>

\* the row create_subscription_month inserts, computed from the row it fetched
InsertedRow(subs, user_id, last, day) ==
    [id |-> Len(subs) + 1,
     user_id |-> user_id,
     status |-> "active",
     current_period_start |-> isoformat(PeriodStart(last, day)),
     current_period_end |-> isoformat(PeriodEnd(PeriodStart(last, day))),
     cancel_at_period_end |-> 0]

\* create_subscription_month: the INSERT and its commit; cap bounds the table
csm_insert(t, cap) ==
    /\ threads[t].pc = "csm_insert"
    /\ Len(subscriptions) < cap
    /\ subscriptions' = Append(subscriptions,
           InsertedRow(subscriptions, threads[t].user_id, threads[t].last, threads[t].day))
    /\ threads' = At(t, "webhook_update", threads[t].user_id, threads[t].day, {})
    /\ UNCHANGED <<today, utcnow, users, password_resets, response, gateway>>

\* chargily_webhook: the UPDATE that clears the flags, and the response
webhook_update(t) ==
    /\ threads[t].pc = "webhook_update"
    /\ subscriptions' = ClearCancel(subscriptions, threads[t].user_id)
    /\ response' = Reply("ok", 200, "")
    /\ threads' = [threads EXCEPT ![t] = Idle]
    /\ UNCHANGED <<today, utcnow, users, password_resets, gateway>>

\* subscribe, action = start_trial: the SELECT of the user row and the test of
\* trial_started_at
trial_select(t, user_id) ==
    /\ threads[t].pc = "idle"
    /\ IF UserRows(user_id) = {}
       THEN /\ response' = Reply("Internal Server Error", 500, "")
            /\ UNCHANGED threads
       ELSE IF users[user_id].trial_started_at # NULL
       THEN /\ response' = Reply("redirect:account", 302, "trial already used")
            /\ UNCHANGED threads
       ELSE /\ threads' = At(t, "trial_update", user_id, 0, {})
            /\ UNCHANGED response
    /\ UNCHANGED <<today, utcnow, users, subscriptions, password_resets, gateway>>

\* subscribe, action = start_trial: the UPDATE of the trial fields, the date
\* read when it is issued, and the response
trial_update(t) ==
    /\ threads[t].pc = "trial_update"
    /\ users' = [users EXCEPT
           ![threads[t].user_id].trial_started_at = isoformat(today),
           ![threads[t].user_id].trial_ends_at = isoformat(TrialEnds(today))]
    /\ response' = Reply("redirect:account", 302, "trial started")
    /\ threads' = [threads EXCEPT ![t] = Idle]
    /\ UNCHANGED <<today, utcnow, subscriptions, password_resets, gateway>>

-----------------------------------------------------------------------------
(* The clock *)

\* the date moves on to a later one of the given days (offsets from Day0),
\* and the UTC clock with it
Tick(days) ==
    /\ \E d \in days : Day0 + d > today /\ today' = Day0 + d
    /\ utcnow' = utcnow + MinutesPerDay * (today' - today)
    /\ UNCHANGED <<users, subscriptions, password_resets, response, threads, gateway>>

\* the UTC clock moves on to a later one of the given minutes (offsets from
\* Minute0) of the same day
TickMinutes(minutes) ==
    /\ \E m \in minutes : Minute0 + m > utcnow /\ utcnow' = Minute0 + m
    /\ UNCHANGED <<today, users, subscriptions, password_resets, response, threads, gateway>>

-----------------------------------------------------------------------------
(* Specifications *)

\* emails a registration form may carry
Emails == {"admin@example.com", "teacher@example.com", "staff@example.com"}

\* the store after init_db on an empty database, no request in flight, the
\* environment holding no gateway credential
Init ==
    /\ today = Day0
    /\ utcnow = Minute0
    /\ users = <<AdminUser>>
    /\ subscriptions = <<>>
    /\ password_resets = <<>>
    /\ response = NoResponse
    /\ threads = [t \in Threads |-> Idle]
    /\ gateway = [key |-> None, checkouts |-> <<>>]

\* The full system: every handler, requests handled one at a time
Next ==
    \/ \E email \in Emails : register(email)
    \/ \E u \in UserIds : start_trial(u)
    \/ \E u \in UserIds : cancel(u)
    \/ \E u \in UserIds : subscription_required(u)
    \/ \E body \in Deliveries : chargily_webhook(body, MaxRows)
    \/ Tick(RequestDays)

Spec == Init /\ [][Next]_vars

\* Access evaluation: the seeded account and an id naming no user, the trial,
\* payments, and the days around the end of a trial and of a billing period
NextAccess ==
    \/ \E u \in AccessIds : start_trial(u)
    \/ \E u \in AccessIds : cancel(u)
    \/ \E u \in AccessIds : subscription_required(u)
    \/ \E u \in AccessIds : chargily_webhook(Paid(u), MaxRows)
    \/ Tick(AccessDays)

SpecAccess == Init /\ [][NextAccess]_vars

\* The trial: registrations, activations and the gate, on the days around the
\* end of a trial that began on the first day
NextTrial ==
    \/ \E email \in Emails : register(email)
    \/ \E u \in UserIds : start_trial(u)
    \/ \E u \in UserIds : subscription_required(u)
    \/ Tick(TrialDays)

SpecTrial == Init /\ [][NextTrial]_vars

\* The ledger: payments only, arriving over several months
NextLedger ==
    \/ \E n \in UserIds : chargily_webhook(Paid(n), MaxPayments)
    \/ Tick(PaymentDays)

SpecLedger == Init /\ [][NextLedger]_vars

\* The webhook: every request body, against a ledger with cancelled rows
NextWebhook ==
    \/ \E body \in Bodies : chargily_webhook(body, MaxRows)
    \/ \E u \in AccessIds : cancel(u)
    \/ Tick(WebhookDays)

SpecWebhook == Init /\ [][NextWebhook]_vars

\* days (offsets from Day0) on which requests arrive, threaded specification
ThreadDays == {0, 1}

\* The threaded server: payments and trial activations of the seeded account
\* in flight at the same time, cancellations, the gate, and the date moving on
NextThreads ==
    \/ \E t \in Threads : webhook_begin(t, Paid(1))
    \/ \E t \in Threads : csm_select(t)
    \/ \E t \in Threads : csm_insert(t, MaxRows)
    \/ \E t \in Threads : webhook_update(t)
    \/ \E t \in Threads : trial_select(t, 1)
    \/ \E t \in Threads : trial_update(t)
    \/ cancel(1)
    \/ subscription_required(1)
    \/ Tick(ThreadDays)

SpecThreads == Init /\ [][NextThreads]_vars

\* minutes (offsets from Minute0) at which requests arrive, reset specification
ResetClock == {0, 60, 61}

\* the passwords typed into the reset form
FormPasswords == {"", "pw1"}

\* Password reset: the registration of a second account, reset requests,
\* uses of the link, and the clock moving through the hour a link lives
NextReset ==
    \/ register("teacher@example.com")
    \/ \E email \in Emails : forgot(email)
    \/ \E token \in Tokens, method \in {"GET", "POST"}, new, confirm \in FormPasswords :
          reset_password(token, method, new, confirm)
    \/ TickMinutes(ResetClock)

SpecReset == Init /\ [][NextReset]_vars

\* days (offsets from Day0) on which requests arrive, checkout specification
PayDays == {0, 30}

\* the store after init_db, the environment holding a gateway credential or none
InitPay ==
    /\ today = Day0
    /\ utcnow = Minute0
    /\ users = <<AdminUser>>
    /\ subscriptions = <<>>
    /\ password_resets = <<>>
    /\ response = NoResponse
    /\ threads = [t \in Threads |-> Idle]
    /\ gateway \in {[key |-> key, checkouts |-> <<>>] : key \in {None, Str("sk_test_1")}}

\* Checkout: initiation, the browser's return, the gateway's notification,
\* cancellation and the gate
NextPay ==
    \/ \E u \in AccessIds, reply \in GatewayReplies : pay_start(u, reply)
    \/ \E u \in AccessIds : account(u)
    \/ \E u \in AccessIds : chargily_webhook(Paid(u), MaxRows)
    \/ \E u \in AccessIds : cancel(u)
    \/ \E u \in AccessIds : subscription_required(u)
    \/ Tick(PayDays)

SpecPay == InitPay /\ [][NextPay]_vars

-----------------------------------------------------------------------------
(* Properties *)

\* the days between two ISO date texts
DaysBetween(a, b) == fromisoformat(b) - fromisoformat(a)

\* the user of id u has a trial that has not ended or a paid period that has not
HasAccess(u) ==
    \E i \in DOMAIN users :
        /\ users[i].id = u
        /\ \/ /\ users[i].trial_ends_at # NULL
              /\ today <= fromisoformat(users[i].trial_ends_at)
           \/ \E j \in DOMAIN subscriptions :
                 /\ subscriptions[j].user_id = u
                 /\ subscriptions[j].status = "active"
                 /\ fromisoformat(subscriptions[j].current_period_end) >= today

\* the two responses of a page behind subscription_required
IsGateResponse(r) == r.body = "page" \/ r.flash = "subscription required"

\* C1: the access gate lets the protected handler run iff the user row exists
\* and its trial has not ended (today <= trial_ends_at) or the ledger holds an
\* active row of that user with current_period_end >= today; otherwise, also
\* for an id naming no user, it redirects to pricing without an error; and a
\* gate request changes no row of users or subscriptions.
C1_AccessGate ==
    [][/\ \A u \in AccessIds :
             subscription_required(u) =>
                 /\ response'.body = "page" <=> HasAccess(u)
                 /\ response'.body # "page" =>
                        response' = Reply("redirect:pricing", 302, "subscription required")
       /\ IsGateResponse(response') => UNCHANGED <<users, subscriptions>>]_vars

\* C1 witness: the gate has let user 1 in on the last day of a paid period,
\* the trial being over
C1_Witness ==
    /\ response.body = "page"
    /\ users[1].trial_ends_at # NULL
    /\ fromisoformat(users[1].trial_ends_at) < today
    /\ \E j \in DOMAIN subscriptions :
          /\ subscriptions[j].user_id = 1
          /\ fromisoformat(subscriptions[j].current_period_end) = today

\* the trial fields of the user of id u are the same before and after the step
TrialFieldsKept(u) ==
    /\ u \in DOMAIN users'
    /\ users'[u].trial_started_at = users[u].trial_started_at
    /\ users'[u].trial_ends_at = users[u].trial_ends_at

\* C2: trial activation is one-way.  A start_trial request of a user whose
\* trial_started_at is set is answered 'trial already used', on any later day
\* and whether or not the window has ended, and leaves both trial fields as
\* they were; for a user whose trial_started_at is null it sets
\* trial_started_at = today and trial_ends_at = today + 7 days.
C2_TrialOneWay ==
    [][\A u \in DOMAIN users :
          /\ (start_trial(u) /\ users[u].trial_started_at # NULL) =>
                 response'.flash = "trial already used"
          /\ (start_trial(u) /\ users[u].trial_started_at = NULL) =>
                 /\ users'[u].trial_started_at # NULL
                 /\ fromisoformat(users'[u].trial_started_at) = today
                 /\ fromisoformat(users'[u].trial_ends_at) = today + 7
          /\ (users[u].trial_started_at # NULL \/ response'.flash = "trial already used") =>
                 TrialFieldsKept(u)]_vars

\* C2 witness: a second activation was rejected after the window had ended
C2_Witness ==
    /\ response.flash = "trial already used"
    /\ \E u \in DOMAIN users :
          /\ users[u].trial_ends_at # NULL
          /\ fromisoformat(users[u].trial_ends_at) < today
          /\ fromisoformat(users[u].trial_ends_at) - fromisoformat(users[u].trial_started_at) = 7

\* the ends of the active rows of user u, as ordinals
ActiveEnds(u) ==
    {fromisoformat(subscriptions[j].current_period_end) :
        j \in {k \in DOMAIN subscriptions :
                  subscriptions[k].user_id = u /\ subscriptions[k].status = "active"}}

\* the ends of all rows of user u, as ordinals
AllEnds(u) ==
    {fromisoformat(subscriptions[j].current_period_end) :
        j \in {k \in DOMAIN subscriptions : subscriptions[k].user_id = u}}

\* the greatest element of a non-empty set of integers
Max(S) == CHOOSE x \in S : \A y \in S : y <= x

\* the row the step has appended
Appended == subscriptions'[Len(subscriptions')]

\* C3: the start of the period create_subscription_month(u) appends on day d.
\* With L the active row of u of greatest current_period_end: if there is no
\* such row or L.current_period_end < d the new row starts on d, otherwise
\* (L.current_period_end >= d, equality included) it starts on
\* L.current_period_end + 1 day; the value returned is the new row's
\* current_period_end.  An active period ending 2024-06-10 extended on
\* 2024-06-01 gives [2024-06-11, 2024-07-10]; extended again on 2024-08-01 it
\* gives [2024-08-01, 2024-08-30].
C3_PeriodStartRule ==
    [][\A u \in UserIds :
          chargily_webhook(Paid(u), MaxPayments) =>
              /\ Len(subscriptions') = Len(subscriptions) + 1
              /\ Appended.user_id = u
              /\ fromisoformat(Appended.current_period_start) =
                     IF ActiveEnds(u) = {} \/ Max(ActiveEnds(u)) < today
                     THEN today
                     ELSE Max(ActiveEnds(u)) + 1
              /\ create_subscription_month(subscriptions, u, today).period_end =
                     fromisoformat(Appended.current_period_end)
              /\ (ActiveEnds(u) # {} /\ isoformat(Max(ActiveEnds(u))) = <<2024, 6, 10>>
                    /\ isoformat(today) = <<2024, 6, 1>>) =>
                     /\ Appended.current_period_start = <<2024, 6, 11>>
                     /\ Appended.current_period_end = <<2024, 7, 10>>
              /\ (ActiveEnds(u) # {} /\ isoformat(Max(ActiveEnds(u))) = <<2024, 7, 10>>
                    /\ isoformat(today) = <<2024, 8, 1>>) =>
                     /\ Appended.current_period_start = <<2024, 8, 1>>
                     /\ Appended.current_period_end = <<2024, 8, 30>>]_vars

\* C3 witness: the ledger of the example, one user's periods ending 2024-06-10,
\* [2024-06-11, 2024-07-10] and [2024-08-01, 2024-08-30]
C3_Witness ==
    \E i, j, k \in DOMAIN subscriptions :
        /\ i < j /\ j < k
        /\ subscriptions[i].user_id = subscriptions[j].user_id
        /\ subscriptions[j].user_id = subscriptions[k].user_id
        /\ subscriptions[i].current_period_end = <<2024, 6, 10>>
        /\ subscriptions[j].current_period_start = <<2024, 6, 11>>
        /\ subscriptions[j].current_period_end = <<2024, 7, 10>>
        /\ subscriptions[k].current_period_start = <<2024, 8, 1>>
        /\ subscriptions[k].current_period_end = <<2024, 8, 30>>
        /\ isoformat(today) = <<2024, 8, 1>>

\* C4: every row of the ledger spans 30 days counted inclusively:
\* current_period_end - current_period_start = 29 days.
C4_PeriodLength ==
    \A j \in DOMAIN subscriptions :
        DaysBetween(subscriptions[j].current_period_start,
                    subscriptions[j].current_period_end) = 29

\* C4 witness: rows appended on different days, one of them on the day the
\* payment arrived and one after an earlier period, one of them ending in a
\* later month than it starts
C4_Witness ==
    \E i, j \in DOMAIN subscriptions :
        /\ fromisoformat(subscriptions[i].current_period_start) = today
        /\ today > Day0
        /\ fromisoformat(subscriptions[j].current_period_start) > today
        /\ subscriptions[j].current_period_end[2] > subscriptions[j].current_period_start[2]

\* C5: payments of one user handled one after the other, the date never going
\* back, leave that user's periods pairwise disjoint (of two rows, one ends
\* strictly before the other starts); and a payment arriving while a period
\* with current_period_end >= today exists appends a period that starts the
\* day after the latest end.
C5_NoOverlap ==
    /\ [](\A i, j \in DOMAIN subscriptions :
             (i # j /\ subscriptions[i].user_id = subscriptions[j].user_id) =>
                 \/ fromisoformat(subscriptions[i].current_period_end)
                        < fromisoformat(subscriptions[j].current_period_start)
                 \/ fromisoformat(subscriptions[j].current_period_end)
                        < fromisoformat(subscriptions[i].current_period_start))
    /\ [][\A u \in UserIds :
             (chargily_webhook(Paid(u), MaxPayments) /\ \E e \in AllEnds(u) : e >= today) =>
                 fromisoformat(Appended.current_period_start) = Max(AllEnds(u)) + 1]_vars

\* C5 witness: three periods of one user, the second the day after the first,
\* the third after a gap
C5_Witness ==
    \E i, j, k \in DOMAIN subscriptions :
        /\ subscriptions[i].user_id = subscriptions[j].user_id
        /\ subscriptions[j].user_id = subscriptions[k].user_id
        /\ DaysBetween(subscriptions[i].current_period_end,
                       subscriptions[j].current_period_start) = 1
        /\ DaysBetween(subscriptions[j].current_period_end,
                       subscriptions[k].current_period_start) > 1

\* whether a JSON object's metadata is an object, null or left out
MetadataIsObject(d) == Get(d, "metadata").t \in {"null", "dict"}

\* a well-formed payload: a JSON object whose metadata, and whose data.metadata
\* when data is an object, is an object, null or left out
WellFormed(body) ==
    /\ body.t = "dict"
    /\ MetadataIsObject(body)
    /\ Get(body, "data").t = "dict" => MetadataIsObject(Get(body, "data"))

\* the payload's entity and status, as the handler reads them, are those of a
\* paid checkout
ReadsAsPaidCheckout(body) ==
    /\ WebhookEvent(body).entity = Str("checkout")
    /\ WebhookEvent(body).status \in {Str("paid"), Str("succeeded"), Str("success")}

\* the user_id the handler reads from the payload's metadata
UserIdOf(body) == WebhookEvent(body).user_id

\* a user_id value that no integer can be read from
NotAnInteger(v) == v.t # "int" /\ ~(v.t = "str" /\ v.s \in DOMAIN DecimalText)

\* the active rows of user u in the table subs
ActiveOf(subs, u) ==
    {j \in DOMAIN subs : subs[j].user_id = u /\ subs[j].status = "active"}

\* C6: a checkout payload with a success status and a metadata.user_id that
\* reads as the integer u is answered ('ok', 200), appends exactly one row, of
\* user u, active and with cancel_at_period_end = false, and leaves every
\* active row of u with cancel_at_period_end = false.  Nothing is deduplicated:
\* every accepted delivery appends one more row.
C6_WebhookSuccess ==
    \A body \in Bodies :
        (WellFormed(body) /\ ReadsAsPaidCheckout(body) /\ ~NotAnInteger(UserIdOf(body))) =>
            LET result == webhook_result(body, subscriptions, today)
                after  == result.subscriptions
                u      == IF UserIdOf(body).t = "int" THEN UserIdOf(body).n
                          ELSE DecimalText[UserIdOf(body).s]
            IN  /\ result.response = Reply("ok", 200, "")
                /\ Len(after) = Len(subscriptions) + 1
                /\ after[Len(after)].user_id = u
                /\ after[Len(after)].status = "active"
                /\ \A j \in ActiveOf(after, u) : after[j].cancel_at_period_end = 0
                /\ \A j \in DOMAIN subscriptions :
                      /\ after[j].user_id = subscriptions[j].user_id
                      /\ after[j].current_period_end = subscriptions[j].current_period_end

\* C6 witness: two deliveries for user 1 were accepted and left two rows, the
\* second after the first, none of them flagged
C6_Witness ==
    /\ response = Reply("ok", 200, "")
    /\ Len(subscriptions) = 2
    /\ \A j \in DOMAIN subscriptions :
          subscriptions[j].user_id = 1 /\ subscriptions[j].cancel_at_period_end = 0
    /\ DaysBetween(subscriptions[1].current_period_end,
                   subscriptions[2].current_period_start) = 1

\* C7: a well-formed payload whose entity and status are not those of a paid
\* checkout (status 'pending', another entity, fields missing) is answered
\* ('ignored', 200) and leaves users and subscriptions as they were, whatever
\* its metadata.user_id.
C7_WebhookIgnored ==
    /\ [](\A body \in Bodies :
             (WellFormed(body) /\ ~ReadsAsPaidCheckout(body)) =>
                 /\ webhook_result(body, subscriptions, today).response
                        = Reply("ignored", 200, "")
                 /\ webhook_result(body, subscriptions, today).subscriptions
                        = subscriptions)
    /\ [][response'.body = "ignored" => UNCHANGED <<users, subscriptions>>]_vars

\* C7 witness: a delivery was ignored while the ledger held a flagged row
C7_Witness ==
    /\ response = Reply("ignored", 200, "")
    /\ \E j \in DOMAIN subscriptions : subscriptions[j].cancel_at_period_end = 1

\* C8: a checkout payload with a success status whose metadata.user_id is left
\* out, null or not readable as an integer is answered ('missing user_id', 400)
\* and leaves the subscriptions table as it was.
C8_WebhookBadUserId ==
    /\ [](\A body \in Bodies :
             (WellFormed(body) /\ ReadsAsPaidCheckout(body) /\ NotAnInteger(UserIdOf(body))) =>
                 /\ webhook_result(body, subscriptions, today).response
                        = Reply("missing user_id", 400, "")
                 /\ webhook_result(body, subscriptions, today).subscriptions
                        = subscriptions)
    /\ [][response'.body = "missing user_id" => UNCHANGED <<users, subscriptions>>]_vars

\* C8 witness: a delivery was refused for its user_id while the ledger held a
\* flagged row
C8_Witness ==
    /\ response = Reply("missing user_id", 400, "")
    /\ \E j \in DOMAIN subscriptions : subscriptions[j].cancel_at_period_end = 1

\* C9: a request body that is not JSON is answered ('invalid json', 400) and
\* changes no stored state.
C9_InvalidJson ==
    [][chargily_webhook(Garbage, MaxRows) =>
          /\ response' = Reply("invalid json", 400, "")
          /\ UNCHANGED <<users, subscriptions>>]_vars

\* the responses the webhook handler returns
DefiniteResponses ==
    {Reply("ok", 200, ""), Reply("ignored", 200, ""),
     Reply("invalid json", 400, ""), Reply("missing user_id", 400, "")}

\* C10: whatever the request body (not JSON, a JSON value that is no object, an
\* object whose metadata or data is a string, number or list, a user_id naming
\* no user), the handler returns one of ('ok', 200), ('ignored', 200),
\* ('invalid json', 400), ('missing user_id', 400): no exception escapes it.
C10_WebhookNeverRaises ==
    [][\A body \in Bodies :
          chargily_webhook(body, MaxRows) => response' \in DefiniteResponses]_vars

\* C11: cancel of user u sets cancel_at_period_end = 1 on exactly the rows of u
\* that are active and not yet flagged; it changes no row's id, user_id,
\* status, current_period_start or current_period_end, adds and deletes no
\* row, changes no row of another user and no field of the users table.
C11_CancelEffect ==
    [][\A u \in AccessIds :
          cancel(u) =>
              /\ Len(subscriptions') = Len(subscriptions)
              /\ \A j \in DOMAIN subscriptions :
                    /\ subscriptions'[j].id = subscriptions[j].id
                    /\ subscriptions'[j].user_id = subscriptions[j].user_id
                    /\ subscriptions'[j].status = subscriptions[j].status
                    /\ subscriptions'[j].current_period_start
                           = subscriptions[j].current_period_start
                    /\ subscriptions'[j].current_period_end
                           = subscriptions[j].current_period_end
                    /\ subscriptions'[j].cancel_at_period_end =
                           IF /\ subscriptions[j].user_id = u
                              /\ subscriptions[j].status = "active"
                              /\ subscriptions[j].cancel_at_period_end = 0
                           THEN 1
                           ELSE subscriptions[j].cancel_at_period_end
              /\ users' = users]_vars

\* C11 witness: a cancellation has flagged the row of one user and left the
\* row of another user unflagged
C11_Witness ==
    /\ response.flash = "cancel at period end"
    /\ \E i, j \in DOMAIN subscriptions :
          /\ subscriptions[i].user_id # subscriptions[j].user_id
          /\ subscriptions[i].cancel_at_period_end = 1
          /\ subscriptions[j].cancel_at_period_end = 0

\* the decision of the access gate for user u on day `day`, the ledger being subs
AccessOn(subs, u, day) ==
    LET user == UserRows(u)
    IN  /\ user # {}
        /\ \/ has_trial_access(user, day)
           \/ active_subscription_for(subs, u, day) # {}

\* the days (offsets from Day0) on which C12 compares the two decisions
DecisionDays == {0, 7, 8, 29, 30, 59, 60}

\* the latest end among the active rows of user u is on or after `day`
BeforeLatestEnd(u, day) == \E e \in ActiveEnds(u) : day <= e

\* C12: cancellation is idempotent and revokes no access.  For every ledger
\* the program reaches, cancel(u) run twice leaves the ledger that cancel(u)
\* run once leaves; and on every day up to and including the latest
\* current_period_end of u's active rows the access decision for u after
\* cancel is the one it would have been without it.
C12_CancelIdempotent ==
    /\ [](\A u \in AccessIds :
             LET once == SetCancel(subscriptions, u)
             IN  /\ SetCancel(once, u) = once
                 /\ \A d \in DecisionDays :
                       BeforeLatestEnd(u, Day0 + d) =>
                           (AccessOn(once, u, Day0 + d)
                               <=> AccessOn(subscriptions, u, Day0 + d)))
    /\ [][\A u \in AccessIds :
             cancel(u) =>
                 /\ SetCancel(subscriptions', u) = subscriptions'
                 /\ GateOpen(u)' <=> GateOpen(u)]_vars

\* C12 witness: user 1, the trial over, has cancelled a period that has not
\* ended and is still let in
C12_Witness ==
    /\ response.flash = "cancel at period end"
    /\ GateOpen(1)
    /\ ~has_trial_access(UserRows(1), today)
    /\ \E j \in DOMAIN subscriptions :
          /\ subscriptions[j].user_id = 1
          /\ subscriptions[j].cancel_at_period_end = 1
          /\ fromisoformat(subscriptions[j].current_period_end) >= today

\* the number of rows of user u in the table subs
RowsOfUser(subs, u) == Cardinality({j \in DOMAIN subs : subs[j].user_id = u})

\* C13: the ledger only grows.  Across trial activations, cancellations,
\* accepted, ignored and rejected webhook deliveries, registrations and day
\* advances no row is deleted, no existing row's id, user_id, status,
\* current_period_start or current_period_end changes (cancel_at_period_end is
\* the only field of an existing row that changes), and the number of rows of
\* each user never decreases.
C13_AppendOnly ==
    [][/\ Len(subscriptions') >= Len(subscriptions)
       /\ \A j \in DOMAIN subscriptions :
             /\ subscriptions'[j].id = subscriptions[j].id
             /\ subscriptions'[j].user_id = subscriptions[j].user_id
             /\ subscriptions'[j].status = subscriptions[j].status
             /\ subscriptions'[j].current_period_start = subscriptions[j].current_period_start
             /\ subscriptions'[j].current_period_end = subscriptions[j].current_period_end
       /\ \A u \in UserIds :
             RowsOfUser(subscriptions', u) >= RowsOfUser(subscriptions, u)]_vars

\* C13 witness: after a cancellation by one user and an accepted payment of
\* another the ledger holds both rows, the first still flagged
C13_Witness ==
    /\ response = Reply("ok", 200, "")
    /\ Len(subscriptions) = 2
    /\ subscriptions[1].cancel_at_period_end = 1
    /\ subscriptions[2].user_id # subscriptions[1].user_id
    /\ today > fromisoformat(subscriptions[1].current_period_end)

\* the day on which the user of id u activated the trial
TrialStart(u) == fromisoformat(users[u].trial_started_at)

\* C18: the trial window.  A user without billing periods who activated the
\* trial on day d is let in on every day from d through d + 7 and turned away
\* on every day from d + 8 on: the gate's decision, and the answer of every
\* gate request, is 'granted' exactly while today <= d + 7.
C18_TrialWindow ==
    /\ [](\A u \in DOMAIN users :
             (users[u].trial_started_at # NULL /\ RowsOfUser(subscriptions, u) = 0) =>
                 (GateOpen(u) <=> today <= TrialStart(u) + 7))
    /\ [][\A u \in DOMAIN users :
             (/\ subscription_required(u)
              /\ users[u].trial_started_at # NULL
              /\ RowsOfUser(subscriptions, u) = 0) =>
                 (response'.body = "page" <=> today <= TrialStart(u) + 7)]_vars

\* C18 witness: a user was let in on the last day of the window, d + 7, the
\* trial having begun after the first day of the calendar
C18_Witness ==
    /\ response.body = "page"
    /\ \E u \in DOMAIN users :
          /\ users[u].trial_started_at # NULL
          /\ TrialStart(u) > Day0
          /\ today = TrialStart(u) + 7
          /\ \A v \in DOMAIN users : v # u => ~GateOpen(v)

\* a field of the payload as C17 reads it: from the top level and, if the key
\* is absent there, from the nested `data` object
FieldPerClaim(body, key) ==
    IF key \in DOMAIN body.f THEN body.f[key]
    ELSE IF Get(body, "data").t = "dict" THEN Get(Get(body, "data"), key)
    ELSE None

\* the canonical event of C17, as a payload with top-level fields only
CanonicalPerClaim(body) ==
    Payload(FieldPerClaim(body, "entity"), FieldPerClaim(body, "status"),
            FieldPerClaim(body, "metadata"), Absent)

\* C17 as stated: the response and the ledger effect of a well-formed payload
\* are those of its canonical (entity, status, metadata) triple, each field
\* taken from the top level and, if absent there, from `data`; so a payload
\* with entity = 'checkout' at the top level and status and metadata only under
\* `data` is a success event.
C17_PerFieldFallback ==
    [][\A body \in Bodies :
          (WellFormed(body) /\ chargily_webhook(body, MaxRows)) =>
              /\ response' = webhook_result(CanonicalPerClaim(body), subscriptions, today).response
              /\ subscriptions' =
                     webhook_result(CanonicalPerClaim(body), subscriptions, today).subscriptions]_vars

\* the handler turns to `data`: the top-level entity is absent, null or empty
\* and `data` is an object
TurnsToData(body) == ~Truthy(Get(body, "entity")) /\ Get(body, "data").t = "dict"

\* a field as the amended C17 reads it: when the handler turns to `data`, the
\* field of `data` unless absent, null or empty there, else the top-level one
FieldAmended(body, key) ==
    IF TurnsToData(body)
    THEN Or(Get(Get(body, "data"), key), Get(body, key))
    ELSE Get(body, key)

\* the canonical event of the amended C17, as a payload with top-level fields only
CanonicalAmended(body) ==
    Payload(FieldAmended(body, "entity"), FieldAmended(body, "status"),
            FieldAmended(body, "metadata"), Absent)

\* the payload {data: {entity: 'checkout', status: 'paid', metadata: {user_id: u}}}
NestedPaid(u) ==
    Payload(Absent, Absent, Absent, Payload(Str("checkout"), Str("paid"), Meta(Num(u)), Absent))

\* the payload {entity: 'checkout', data: {status: 'paid', metadata: {user_id: u}}}
SplitPaid(u) ==
    Payload(Str("checkout"), Absent, Absent, Payload(Absent, Str("paid"), Meta(Num(u)), Absent))

\* C17 amended: the response and the ledger effect of a well-formed payload
\* are those of one canonical (entity, status, metadata) triple.  The triple is
\* read from the top level, unless the top-level entity is absent, null or
\* empty and `data` is an object: then each of the three fields is read from
\* `data`, and from the top level where `data` lacks it.  So
\* {data: {entity: 'checkout', status: 'paid', metadata: {user_id: u}}} has the
\* response and the ledger effect of the same fields at the top level, while a
\* payload with entity = 'checkout' at the top level and status and metadata
\* only under `data` is answered 'ignored' and changes nothing.
C17_WholePayloadFallback ==
    /\ \A body \in Bodies :
          WellFormed(body) =>
              webhook_result(body, subscriptions, today)
                  = webhook_result(CanonicalAmended(body), subscriptions, today)
    /\ \A u \in UserIds :
          /\ webhook_result(NestedPaid(u), subscriptions, today)
                 = webhook_result(Paid(u), subscriptions, today)
          /\ webhook_result(SplitPaid(u), subscriptions, today)
                 = [response |-> Reply("ignored", 200, ""), subscriptions |-> subscriptions]

\* C17 witness: a delivery with entity and status under `data` and metadata at
\* the top level only was accepted (no other body of the model names user 2)
C17_Witness ==
    /\ response = Reply("ok", 200, "")
    /\ subscriptions # <<>>
    /\ subscriptions[Len(subscriptions)].user_id = 2
    /\ 2 \notin AccessIds

\* C19: every row of subscriptions belongs to an existing user: its user_id is
\* the id of a row of users, whatever webhook deliveries and registrations
\* came before.
C19_RowsHaveUsers ==
    \A j \in DOMAIN subscriptions :
        \E i \in DOMAIN users : users[i].id = subscriptions[j].user_id

\* the rows of user u that are active and cover day t
CurrentOn(u, t) ==
    {j \in DOMAIN subscriptions :
        /\ subscriptions[j].user_id = u
        /\ subscriptions[j].status = "active"
        /\ fromisoformat(subscriptions[j].current_period_start) <= t
        /\ t <= fromisoformat(subscriptions[j].current_period_end)}

\* the days on which some period of the ledger starts, and today
PeriodStarts ==
    {today} \cup {fromisoformat(subscriptions[j].current_period_start) : j \in DOMAIN subscriptions}

\* C14: with webhook handlers of one user running at the same time (SELECT of
\* the last period, computation and INSERT being separate steps), at most one
\* row of a user is active and covers a given day t.  (Two periods that share
\* a day share the first day of the later one, so the days that start a period
\* stand for every day.)
C14_OneCurrentPeriod ==
    \A u \in UserIds : \A t \in PeriodStarts : Cardinality(CurrentOn(u, t)) <= 1

\* C15: with start_trial requests of one user in flight at the same time and
\* the date moving on between their statements, the trial fields of a user,
\* once set, are changed by no later step.
C15_TrialWrittenOnce ==
    [][\A u \in DOMAIN users :
          users[u].trial_started_at # NULL => TrialFieldsKept(u)]_vars

\* user u has a paid period that has not ended on day `day`, the ledger being subs
PaidOn(subs, u, day) == active_subscription_for(subs, u, day) # {}

\* C16: checkout initiation changes no local state.  Whatever the outcome of
\* pay_start (credential unset, outbound call raising or timing out, gateway
\* status >= 400, response without checkout_url, redirect to the checkout) the
\* users and subscriptions tables are unchanged, and with the credential unset
\* no outbound call is made; the browser's return to /account changes nothing
\* either.  So a user's paid access on any day changes only in a step that
\* answers a webhook delivery ('ok', 200).
C16_CheckoutNoMutation ==
    [][/\ \A u \in AccessIds, reply \in GatewayReplies :
             pay_start(u, reply) =>
                 /\ UNCHANGED <<users, subscriptions>>
                 /\ ~Truthy(gateway.key) => UNCHANGED gateway
       /\ \A u \in AccessIds : account(u) => UNCHANGED <<users, subscriptions>>
       /\ (subscriptions' # subscriptions
              /\ \E u \in UserIds, d \in DecisionDays :
                    PaidOn(subscriptions', u, Day0 + d) # PaidOn(subscriptions, u, Day0 + d)) =>
             response' = Reply("ok", 200, "")]_vars

\* C16 witness: the browser was redirected to the checkout the gateway created
\* for user 1, and no period has been credited
C16_Witness ==
    /\ response = Reply("redirect:checkout_url", 302, "")
    /\ gateway.checkouts # <<>>
    /\ gateway.checkouts[Len(gateway.checkouts)] = 1
    /\ ~PaidOn(subscriptions, 1, today)

\* the rows of password_resets that hold the token, are unused and have not
\* expired
LiveRequests(token) ==
    {j \in DOMAIN password_resets :
        /\ password_resets[j].token = token
        /\ password_resets[j].used = 0
        /\ utcnow <= datetime_fromisoformat(password_resets[j].expires_at)}

\* the step has changed a password and flagged a reset request as used
ResetAccepted == response'.flash = "password changed"

\* C20: reset tokens are single-use and expire.  A reset request is accepted
\* (the owner's password_hash replaced, used set to 1) only if a row with the
\* token exists, is unused and now <= expires_at, expires_at being the time of
\* the forgot request + 1 hour; a request naming a used, expired or unknown
\* token changes no password and no used flag; passwords change in no other
\* way, and a used flag is never cleared.
C20_ResetSingleUse ==
    [][/\ \A token \in Tokens, method \in {"GET", "POST"}, new, confirm \in FormPasswords :
             reset_password(token, method, new, confirm) =>
                 /\ ResetAccepted =>
                        \E j \in LiveRequests(token) :
                            /\ password_resets'[j].used = 1
                            /\ \A i \in DOMAIN users :
                                  users'[i].password_hash =
                                      IF users[i].id = password_resets[j].user_id
                                      THEN sha256(new)
                                      ELSE users[i].password_hash
                 /\ (ResetAccepted <=> LiveRequests(token) # {} /\ method = "POST"
                                          /\ new # "" /\ new = confirm)
                 /\ ~ResetAccepted => UNCHANGED <<users, password_resets>>
       /\ \A i \in DOMAIN users :
             users'[i].password_hash # users[i].password_hash => ResetAccepted
       /\ \A j \in DOMAIN password_resets :
             /\ password_resets[j].used = 1 => password_resets'[j] = password_resets[j]
             /\ password_resets'[j].used # password_resets[j].used => ResetAccepted
       /\ Len(password_resets') > Len(password_resets) =>
             datetime_fromisoformat(password_resets'[Len(password_resets')].expires_at)
                 = utcnow + 60]_vars

\* C20 witness: every token issued has been used for a reset within its hour,
\* and the last request, naming one of them again, was turned away
C20_Witness ==
    /\ response.flash = "link invalid or used"
    /\ Len(password_resets) = MaxResets
    /\ \A j \in DOMAIN password_resets :
          /\ password_resets[j].used = 1
          /\ utcnow <= datetime_fromisoformat(password_resets[j].expires_at)
    /\ \E i \in DOMAIN users : users[i].password_hash = sha256("pw1")

=============================================================================
